---- MODULE Spec2Model ----
(***************************************************************************)
(* Model of slurp (src/main.go): the generation of candidate bucket        *)
(* hostnames from domains or keywords, the dispatch loop that probes them  *)
(* under a counting semaphore, and the classification of each response.    *)
(*                                                                         *)
(* A string is a sequence of tokens; "." is always a token of its own, so  *)
(* that strings.Replace(s, ".", "", -1) is the removal of those tokens,    *)
(* and "%s" is the only formatting verb the templates use.                 *)
(***************************************************************************)
EXTENDS Integers, Sequences, FiniteSets, Bags, TLC

VARIABLES
    action,          \* "DOMAIN" | "KEYWORD" | "NADA" (set by the cobra command)
    cfgConcurrency,  \* after PreInit: the flag, or NumCPU when the flag is <= 0
    cfgDomains,      \* -t of the domain command
    cfgKeywords,     \* -t of the keyword command
    perms,           \* the "permutations" array of the permutations file
    pc,              \* position of the main goroutine
    i,               \* loop index of the runner that is executing
    domainQ,         \* queue of Domain
    permutatedQ,     \* queue of PermutatedDomain or Keyword
    sem,             \* number of values buffered in the channel sem
    probes,          \* the bag of probe goroutines that have not returned
    stats,           \* the Stats counters and link lists
    exitCode,        \* -1 while the process runs, else its exit code
    requeues,        \* number of Puts made by probes (bounds the retries)
    ev               \* the probe step taken last (history)

vars == <<action, cfgConcurrency, cfgDomains, cfgKeywords, perms, pc, i,
          domainQ, permutatedQ, sem, probes, stats, exitCode, requeues, ev>>

----------------------------------------------------------------------------
(* Bounds of the model *)

MaxConcurrency == 2     \* largest concurrency flag and CPU count
MaxDomains == 2         \* longest list of domains
MaxCandidates == 2      \* most candidates a keyword run generates
MaxRequeues == 2        \* Puts made by probes in one run
MaxQueue == 2           \* longest queue handed to a dispatch loop run on its own

----------------------------------------------------------------------------
(* Strings *)

RECURSIVE RemoveDots(_)
\* strings.Replace(s, ".", "", -1)
RemoveDots(s) ==
    IF s = <<>> THEN <<>>
    ELSE IF Head(s) = "." THEN RemoveDots(Tail(s))
    ELSE <<Head(s)>> \o RemoveDots(Tail(s))

RECURSIVE Extra(_)
\* the operands a format did not consume, as fmt reports them
Extra(args) ==
    IF args = <<>> THEN <<>>
    ELSE <<"string=">> \o Head(args)
         \o (IF Tail(args) = <<>> THEN <<>> ELSE <<", ">>) \o Extra(Tail(args))

RECURSIVE Sprintf(_, _)
\* fmt.Sprintf(format, args...) for formats whose only verb is %s
Sprintf(format, args) ==
    IF format = <<>>
    THEN IF args = <<>> THEN <<>> ELSE <<"%!(EXTRA ">> \o Extra(args) \o <<")">>
    ELSE IF Head(format) = "%s"
         THEN IF args = <<>>
              THEN <<"%!s(MISSING)">> \o Sprintf(Tail(format), args)
              ELSE Head(args) \o Sprintf(Tail(format), Tail(args))
         ELSE <<Head(format)>> \o Sprintf(Tail(format), args)

----------------------------------------------------------------------------
(* The permutations file *)

\* the "s3_url" field
S3Url == <<"s3", ".", "amazonaws", ".", "com">>

FmtPlain == <<"%s", ".", "%s">>
FmtDev == <<"%s", "-", "dev", ".", "%s">>

\* the "permutations" arrays the runs are checked with
PermLists == { <<>>, <<FmtPlain>>, <<FmtPlain, FmtDev>> }

RECURSIVE Templated(_, _)
\* the loop over perms of PermutateDomain and PermutateKeyword
Templated(ps, name) ==
    IF ps = <<>> THEN <<>>
    ELSE <<Sprintf(Head(ps), <<name, S3Url>>)>> \o Templated(Tail(ps), name)

\* PermutateDomain with the two appended hostnames in the other order
PermutateDomainSwapped(ps, domain, suffix) ==
    Templated(ps, domain)
    \o << Sprintf(<<"%s", ".", "%s">>,
                  << RemoveDots(Sprintf(<<"%s", ".", "%s">>, <<domain, suffix>>)),
                     S3Url >>) >>
    \o << Sprintf(<<"%s", ".", "%s", ".", "%s">>, <<domain, suffix, S3Url>>) >>

PermutateDomain(ps, domain, suffix) ==
    Templated(ps, domain)
    \o << Sprintf(<<"%s", ".", "%s", ".", "%s">>, <<domain, suffix, S3Url>>) >>
    \o << Sprintf(<<"%s", ".", "%s">>,
                  << RemoveDots(Sprintf(<<"%s", ".", "%s">>, <<domain, suffix>>)),
                     S3Url >>) >>

PermutateKeyword(ps, keyword) == Templated(ps, keyword)

----------------------------------------------------------------------------
(* Domain inputs: what idna.ToASCII and tldextract.Extract return for them *)

DomainInputs == {"", "acme.com", "shop.co.uk", "b\\u00fccher.de", "com",
                 "localhost", "xn--\\u00fc.com"}

\* idna.ToASCII(raw): [err, out]
ToASCII(raw) ==
    CASE raw = "xn--\\u00fc.com" -> [err |-> TRUE, out |-> ""]
      [] raw = "b\\u00fccher.de" -> [err |-> FALSE, out |-> "xn--bcher-kva.de"]
      [] OTHER -> [err |-> FALSE, out |-> raw]

\* extract.Extract(cn): [Root, Tld]
Extract(cn) ==
    CASE cn = "acme.com" -> [Root |-> <<"acme">>, Tld |-> <<"com">>]
      [] cn = "shop.co.uk" -> [Root |-> <<"shop">>, Tld |-> <<"co", ".", "uk">>]
      [] cn = "com" -> [Root |-> <<>>, Tld |-> <<"com">>]
      [] cn = "localhost" -> [Root |-> <<"localhost">>, Tld |-> <<>>]
      [] OTHER -> [Root |-> <<>>, Tld |-> <<>>]

\* the Domain that PermutateDomainRunner queues for an accepted input
MakeDomain(raw) ==
    [CN |-> ToASCII(raw).out, Domain |-> Extract(ToASCII(raw).out).Root,
     Suffix |-> Extract(ToASCII(raw).out).Tld, Raw |-> raw]

\* the outcome of one iteration of the first loop of PermutateDomainRunner
InputFate(raw) ==
    IF raw = "" THEN "empty"
    ELSE IF ToASCII(raw).err THEN "fatal"
    ELSE IF raw # ToASCII(raw).out THEN "skip"
    ELSE IF Extract(ToASCII(raw).out).Root = <<>> \/ Extract(ToASCII(raw).out).Tld = <<>>
         THEN "skip"
    ELSE "put"

KeywordInputs == { <<"acme">>, <<"a", ".", "b">> }

RECURSIVE SeqsUpTo(_, _)
SeqsUpTo(S, n) ==
    IF n = 0 THEN { <<>> }
    ELSE SeqsUpTo(S, n - 1)
         \cup { Append(s, x) : s \in { t \in SeqsUpTo(S, n - 1) : Len(t) = n - 1 }, x \in S }

----------------------------------------------------------------------------
(* Stats: four counters, each with its list of links *)

NewStats ==
    [Requests200 |-> 0, Requests403 |-> 0, Requests404 |-> 0, Requests503 |-> 0,
     Links200 |-> <<>>, Links403 |-> <<>>, Links404 |-> <<>>, Links503 |-> <<>>]

IncRequests200(st) == [st EXCEPT !.Requests200 = @ + 1]
IncRequests403(st) == [st EXCEPT !.Requests403 = @ + 1]
IncRequests404(st) == [st EXCEPT !.Requests404 = @ + 1]
IncRequests503(st) == [st EXCEPT !.Requests503 = @ + 1]
Add200Link(st, link) == [st EXCEPT !.Links200 = Append(@, link)]
Add403Link(st, link) == [st EXCEPT !.Links403 = Append(@, link)]
Add404Link(st, link) == [st EXCEPT !.Links404 = Append(@, link)]
Add503Link(st, link) == [st EXCEPT !.Links503 = Append(@, link)]

----------------------------------------------------------------------------
(* The channel sem *)

\* make(chan int, max)
MakeSem == 0
\* a send that never waits for room in the channel
SemCanSendUnbounded(s, max) == TRUE
\* sem <- 1 can proceed
SemCanSend(s, max) == s < max
SemSend(s) == s + 1
\* a return that leaves the value in the channel
SemReceiveMissing(s) == s
\* <-sem
SemReceive(s) == s - 1

----------------------------------------------------------------------------
(* What a probe does with a response *)

Statuses == {200, 307, 403, 404, 503, 500}
ErrorTexts == {"timeout", "other"}

\* the Location header of a 307: one that http.NewRequest accepts and one
\* that it rejects
LocGood == <<"http://", "bucket", ".", "s3-eu-west-1", ".", "amazonaws", ".", "com", "/">>
LocBad == <<"%zz">>
Locations == {LocGood, LocBad}
\* http.NewRequest("GET", loc, nil) returns an error
NewRequestFails(loc) == loc = LocBad

\* the chain with the link of a 404 left out
DomainFirstStatsNoLink(st, pd, code) ==
    IF code = 200 THEN Add200Link(IncRequests200(st), pd.Permutation)
    ELSE IF code = 307 THEN st
    ELSE IF code = 403 THEN Add403Link(IncRequests403(st), pd.Permutation)
    ELSE IF code = 404 THEN IncRequests404(st)
    ELSE IF code = 503 THEN Add503Link(IncRequests503(st), pd.Permutation)
    ELSE st

\* the chain with an unrecognized status counted as a 404
DomainFirstStatsElse404(st, pd, code) ==
    IF code = 200 THEN Add200Link(IncRequests200(st), pd.Permutation)
    ELSE IF code = 307 THEN st
    ELSE IF code = 403 THEN Add403Link(IncRequests403(st), pd.Permutation)
    ELSE IF code = 503 THEN Add503Link(IncRequests503(st), pd.Permutation)
    ELSE Add404Link(IncRequests404(st), pd.Permutation)

\* CheckDomainPermutations, the chain on resp.StatusCode of the first response
DomainFirstStats(st, pd, code) ==
    IF code = 200 THEN Add200Link(IncRequests200(st), pd.Permutation)
    ELSE IF code = 307 THEN st
    ELSE IF code = 403 THEN Add403Link(IncRequests403(st), pd.Permutation)
    ELSE IF code = 404 THEN Add404Link(IncRequests404(st), pd.Permutation)
    ELSE IF code = 503 THEN Add503Link(IncRequests503(st), pd.Permutation)
    ELSE st

\* a 503 that is not put back
DomainNeverRequeues(code) == FALSE
\* a 200 that is put back as well as recorded
DomainRequeuesPublic(code) == code \in {200, 503}
\* CheckDomainPermutations: permutatedQ.Put(pd) on the first response
DomainFirstRequeues(code) == code = 503

\* the chain recording the candidate where the code records loc
DomainFollowStatsCandidate(st, pd, loc, code) ==
    IF code = 200 THEN Add200Link(IncRequests200(st), pd.Permutation)
    ELSE IF code = 403 THEN Add403Link(IncRequests403(st), pd.Permutation)
    ELSE st

\* CheckDomainPermutations, the chain on the status of the response to the
\* request for Location
DomainFollowStats(st, pd, loc, code) ==
    IF code = 200 THEN Add200Link(IncRequests200(st), loc)
    ELSE IF code = 403 THEN Add403Link(IncRequests403(st), pd.Permutation)
    ELSE st

\* CheckKeywordPermutations, the chain on resp.StatusCode of the first response
KeywordFirstStats(st, pd, code) ==
    IF code = 200 THEN Add200Link(IncRequests200(st), pd.Permutation)
    ELSE IF code = 307 THEN st
    ELSE IF code = 403 THEN Add403Link(IncRequests403(st), pd.Permutation)
    ELSE IF code = 404 THEN Add404Link(IncRequests404(st), pd.Permutation)
    ELSE IF code = 503 THEN Add503Link(IncRequests503(st), pd.Permutation)
    ELSE st

\* CheckKeywordPermutations: permutatedQ.Put(pd) on the first response
KeywordFirstRequeues(code) == code = 503

\* CheckKeywordPermutations, the chain on the status of the response to the
\* request for Location
KeywordFollowStats(st, pd, loc, code) ==
    IF code = 200 THEN Add200Link(IncRequests200(st), loc)
    ELSE IF code = 403 THEN Add403Link(IncRequests403(st), loc)
    ELSE st

FirstStats(st, pd, code) ==
    IF action = "DOMAIN" THEN DomainFirstStats(st, pd, code)
    ELSE KeywordFirstStats(st, pd, code)

FirstRequeues(code) ==
    IF action = "DOMAIN" THEN DomainFirstRequeues(code) ELSE KeywordFirstRequeues(code)

FollowStats(st, pd, loc, code) ==
    IF action = "DOMAIN" THEN DomainFollowStats(st, pd, loc, code)
    ELSE KeywordFollowStats(st, pd, loc, code)

----------------------------------------------------------------------------
(* Initial states *)

\* PreInit: a concurrency flag <= 0 becomes runtime.NumCPU()
ResolveConcurrency(flag, numCPU) == IF flag = 0 \/ flag < 0 THEN numCPU ELSE flag

NoPd == [Permutation |-> <<>>]
NoEvent == [op |-> "none", pd |-> NoPd, code |-> 0, err |-> "", loc |-> <<>>]

\* the state main is in when PreInit has returned
Init ==
    /\ action \in {"DOMAIN", "KEYWORD", "NADA"}
    /\ \E flag \in -1 .. MaxConcurrency, numCPU \in 1 .. MaxConcurrency :
          cfgConcurrency = ResolveConcurrency(flag, numCPU)
    /\ cfgDomains \in IF action = "DOMAIN" THEN SeqsUpTo(DomainInputs, MaxDomains)
                      ELSE { <<>> }
    /\ perms \in PermLists
    /\ cfgKeywords \in IF action = "KEYWORD"
                       THEN { kws \in SeqsUpTo(KeywordInputs, MaxCandidates) :
                                 Len(kws) * Len(perms) <= MaxCandidates }
                       ELSE { <<>> }
    /\ pc = "main"
    /\ i = 1
    /\ domainQ = <<>>
    /\ permutatedQ = <<>>
    /\ sem = MakeSem
    /\ probes = EmptyBag
    /\ stats = NewStats
    /\ exitCode = -1
    /\ requeues = 0
    /\ ev = NoEvent

Running == exitCode = -1

\* os.Exit(code), log.Fatal (code 1), a panic (code 2), or main returning (code 0)
Exit(code) ==
    /\ exitCode' = code
    /\ pc' = "exited"

----------------------------------------------------------------------------
(* main *)

\* case "DOMAIN": Init(), then PermutateDomainRunner is entered
MainDomain ==
    /\ Running /\ pc = "main" /\ action = "DOMAIN"
    /\ pc' = "normalize"
    /\ i' = 1
    /\ domainQ' = <<>>
    /\ permutatedQ' = <<>>
    /\ ev' = NoEvent
    /\ UNCHANGED <<action, cfgConcurrency, cfgDomains, cfgKeywords, perms, sem,
                   probes, stats, exitCode, requeues>>

\* case "KEYWORD": Init(), then PermutateKeywordRunner is entered
MainKeyword ==
    /\ Running /\ pc = "main" /\ action = "KEYWORD"
    /\ pc' = "keywords"
    /\ i' = 1
    /\ domainQ' = <<>>
    /\ permutatedQ' = <<>>
    /\ ev' = NoEvent
    /\ UNCHANGED <<action, cfgConcurrency, cfgDomains, cfgKeywords, perms, sem,
                   probes, stats, exitCode, requeues>>

\* case "NADA": os.Exit(0)
MainNada ==
    /\ Running /\ pc = "main" /\ action = "NADA"
    /\ Exit(0)
    /\ ev' = NoEvent
    /\ UNCHANGED <<action, cfgConcurrency, cfgDomains, cfgKeywords, perms, i, domainQ,
                   permutatedQ, sem, probes, stats, requeues>>

----------------------------------------------------------------------------
(* PermutateDomainRunner *)

\* one iteration of the loop over domains
NormalizeDomain ==
    /\ Running /\ pc = "normalize" /\ i <= Len(cfgDomains)
    /\ LET fate == InputFate(cfgDomains[i]) IN
         IF fate = "fatal"
         THEN /\ Exit(1)
              /\ UNCHANGED <<i, domainQ>>
         ELSE /\ i' = i + 1
              /\ domainQ' = IF fate = "put" THEN Append(domainQ, MakeDomain(cfgDomains[i]))
                            ELSE domainQ
              /\ UNCHANGED <<pc, exitCode>>
    /\ ev' = NoEvent
    /\ UNCHANGED <<action, cfgConcurrency, cfgDomains, cfgKeywords, perms, permutatedQ,
                   sem, probes, stats, requeues>>

\* if domainQ.Len() == 0 { os.Exit(1) }
CheckDomainQ ==
    /\ Running /\ pc = "normalize" /\ i > Len(cfgDomains)
    /\ IF Len(domainQ) = 0
       THEN Exit(1)
       ELSE /\ pc' = "expand"
            /\ UNCHANGED exitCode
    /\ ev' = NoEvent
    /\ UNCHANGED <<action, cfgConcurrency, cfgDomains, cfgKeywords, perms, i, domainQ,
                   permutatedQ, sem, probes, stats, requeues>>

\* the PermutatedDomain values queued for one Domain
DomainCandidates(ps, d) ==
    [k \in 1 .. Len(PermutateDomain(ps, d.Domain, d.Suffix)) |->
        [Permutation |-> PermutateDomain(ps, d.Domain, d.Suffix)[k], Domain |-> d]]

\* one iteration of the for loop without exit: domainQ.Get(1) blocks while
\* domainQ is empty
ExpandDomain ==
    /\ Running /\ pc = "expand"
    /\ domainQ # <<>>
    /\ domainQ' = Tail(domainQ)
    /\ permutatedQ' = permutatedQ \o DomainCandidates(perms, Head(domainQ))
    /\ ev' = NoEvent
    /\ UNCHANGED <<action, cfgConcurrency, cfgDomains, cfgKeywords, perms, pc, i, sem,
                   probes, stats, exitCode, requeues>>

----------------------------------------------------------------------------
(* PermutateKeywordRunner *)

\* the Keyword values queued for one keyword
KeywordCandidates(ps, kw) ==
    [k \in 1 .. Len(PermutateKeyword(ps, kw)) |->
        [Permutation |-> PermutateKeyword(ps, kw)[k], Keyword |-> kw]]

\* one iteration of the loop over keywords
ExpandKeyword ==
    /\ Running /\ pc = "keywords" /\ i <= Len(cfgKeywords)
    /\ permutatedQ' = permutatedQ \o KeywordCandidates(perms, cfgKeywords[i])
    /\ i' = i + 1
    /\ ev' = NoEvent
    /\ UNCHANGED <<action, cfgConcurrency, cfgDomains, cfgKeywords, perms, pc, domainQ,
                   sem, probes, stats, exitCode, requeues>>

\* PermutateKeywordRunner returns and CheckKeywordPermutations makes sem
StartCheckKeyword ==
    /\ Running /\ pc = "keywords" /\ i > Len(cfgKeywords)
    /\ sem' = MakeSem
    /\ pc' = "acquire"
    /\ ev' = NoEvent
    /\ UNCHANGED <<action, cfgConcurrency, cfgDomains, cfgKeywords, perms, i, domainQ,
                   permutatedQ, probes, stats, exitCode, requeues>>

----------------------------------------------------------------------------
(* The dispatch loop of CheckDomainPermutations and CheckKeywordPermutations *)

\* sem <- 1
Acquire ==
    /\ Running /\ pc = "acquire"
    /\ SemCanSend(sem, cfgConcurrency)
    /\ sem' = SemSend(sem)
    /\ pc' = "get"
    /\ ev' = NoEvent
    /\ UNCHANGED <<action, cfgConcurrency, cfgDomains, cfgKeywords, perms, i, domainQ,
                   permutatedQ, probes, stats, exitCode, requeues>>

\* a Get that returns the item put last
DispatchNewest ==
    /\ Running /\ pc = "get"
    /\ permutatedQ # <<>>
    /\ permutatedQ' = SubSeq(permutatedQ, 1, Len(permutatedQ) - 1)
    /\ probes' = probes (+) SetToBag({[pd |-> permutatedQ[Len(permutatedQ)],
                                       at |-> "first", loc |-> <<>>]})
    /\ pc' = "len"
    /\ ev' = NoEvent
    /\ UNCHANGED <<action, cfgConcurrency, cfgDomains, cfgKeywords, perms, i, domainQ,
                   sem, stats, exitCode, requeues>>

\* permutatedQ.Get(1), which blocks while the queue is empty, and the go
\* statement on the item it returns
Dispatch ==
    /\ Running /\ pc = "get"
    /\ permutatedQ # <<>>
    /\ permutatedQ' = Tail(permutatedQ)
    /\ probes' = probes (+) SetToBag({[pd |-> Head(permutatedQ), at |-> "first", loc |-> <<>>]})
    /\ pc' = "len"
    /\ ev' = NoEvent
    /\ UNCHANGED <<action, cfgConcurrency, cfgDomains, cfgKeywords, perms, i, domainQ,
                   sem, stats, exitCode, requeues>>

\* a loop that is left with one candidate still queued
LoopExitsEarly(q) == Len(q) <= 1
\* a loop that is never left
LoopExitsNever(q) == FALSE
\* the loop is left when permutatedQ.Len() is 0
LoopExits(q) == Len(q) = 0

\* if permutatedQ.Len() == 0 { break }
CheckLen ==
    /\ Running /\ pc = "len"
    /\ pc' = IF LoopExits(permutatedQ) THEN "report" ELSE "acquire"
    /\ ev' = NoEvent
    /\ UNCHANGED <<action, cfgConcurrency, cfgDomains, cfgKeywords, perms, i, domainQ,
                   permutatedQ, sem, probes, stats, exitCode, requeues>>

\* log.Printf("%+v", stats), and main returns: the process ends with the
\* goroutines that are left
Report ==
    /\ Running /\ pc = "report"
    /\ Exit(0)
    /\ ev' = NoEvent
    /\ UNCHANGED <<action, cfgConcurrency, cfgDomains, cfgKeywords, perms, i, domainQ,
                   permutatedQ, sem, probes, stats, requeues>>

----------------------------------------------------------------------------
(* The probe goroutine *)

\* kclient.Do(req) of the first request returns an error: Put, <-sem, return
ProbeFirstError(p) ==
    /\ Running /\ p.at = "first"
    /\ requeues < MaxRequeues
    /\ \E e \in ErrorTexts :
          ev' = [op |-> "firstError", pd |-> p.pd, code |-> 0, err |-> e,
                 loc |-> <<>>]
    /\ permutatedQ' = Append(permutatedQ, p.pd)
    /\ requeues' = requeues + 1
    /\ sem' = SemReceive(sem)
    /\ probes' = probes (-) SetToBag({p})
    /\ UNCHANGED <<action, cfgConcurrency, cfgDomains, cfgKeywords, perms, pc, i,
                   domainQ, stats, exitCode>>

\* the first request is answered with a status other than 307
ProbeFirstStatus(p) ==
    /\ Running /\ p.at = "first"
    /\ \E code \in Statuses \ {307} :
          /\ FirstRequeues(code) => requeues < MaxRequeues
          /\ ev' = [op |-> "first", pd |-> p.pd, code |-> code, err |-> "",
                    loc |-> <<>>]
          /\ stats' = FirstStats(stats, p.pd, code)
          /\ permutatedQ' = IF FirstRequeues(code) THEN Append(permutatedQ, p.pd)
                            ELSE permutatedQ
          /\ requeues' = IF FirstRequeues(code) THEN requeues + 1 ELSE requeues
    /\ sem' = SemReceive(sem)
    /\ probes' = probes (-) SetToBag({p})
    /\ UNCHANGED <<action, cfgConcurrency, cfgDomains, cfgKeywords, perms, pc, i,
                   domainQ, exitCode>>

\* the first request is answered with 307: loc is read from the Location
\* header and the second request is built
ProbeRedirect(p) ==
    /\ Running /\ p.at = "first"
    /\ \E loc \in Locations :
          /\ probes' = (probes (-) SetToBag({p}))
                        (+) SetToBag({[pd |-> p.pd, at |-> "follow", loc |-> loc]})
          /\ ev' = [op |-> "redirect", pd |-> p.pd, code |-> 307, err |-> "",
                    loc |-> loc]
    /\ stats' = FirstStats(stats, p.pd, 307)
    /\ UNCHANGED <<action, cfgConcurrency, cfgDomains, cfgKeywords, perms, pc, i,
                   domainQ, permutatedQ, sem, exitCode, requeues>>

\* http.NewRequest rejected loc: req is nil and kclient.Do(req) dereferences
\* it, which panics and ends the process
ProbeFollowPanic(p) ==
    /\ Running /\ p.at = "follow"
    /\ NewRequestFails(p.loc)
    /\ exitCode' = 2
    /\ ev' = [op |-> "panic", pd |-> p.pd, code |-> 0, err |-> "",
              loc |-> p.loc]
    /\ UNCHANGED <<action, cfgConcurrency, cfgDomains, cfgKeywords, perms, pc, i,
                   domainQ, permutatedQ, sem, probes, stats, requeues>>

\* kclient.Do(req) of the second request returns an error: Put, <-sem, return
ProbeFollowError(p) ==
    /\ Running /\ p.at = "follow"
    /\ ~NewRequestFails(p.loc)
    /\ requeues < MaxRequeues
    /\ \E e \in ErrorTexts :
          ev' = [op |-> "followError", pd |-> p.pd, code |-> 0, err |-> e,
                 loc |-> p.loc]
    /\ permutatedQ' = Append(permutatedQ, p.pd)
    /\ requeues' = requeues + 1
    /\ sem' = SemReceive(sem)
    /\ probes' = probes (-) SetToBag({p})
    /\ UNCHANGED <<action, cfgConcurrency, cfgDomains, cfgKeywords, perms, pc, i,
                   domainQ, stats, exitCode>>

\* the second request is answered
ProbeFollowStatus(p) ==
    /\ Running /\ p.at = "follow"
    /\ ~NewRequestFails(p.loc)
    /\ \E code \in Statuses :
          /\ ev' = [op |-> "follow", pd |-> p.pd, code |-> code, err |-> "",
                    loc |-> p.loc]
          /\ stats' = FollowStats(stats, p.pd, p.loc, code)
    /\ sem' = SemReceive(sem)
    /\ probes' = probes (-) SetToBag({p})
    /\ UNCHANGED <<action, cfgConcurrency, cfgDomains, cfgKeywords, perms, pc, i,
                   domainQ, permutatedQ, exitCode, requeues>>

----------------------------------------------------------------------------
(* The program *)

Next ==
    \/ MainDomain
    \/ MainKeyword
    \/ MainNada
    \/ NormalizeDomain
    \/ CheckDomainQ
    \/ ExpandDomain
    \/ ExpandKeyword
    \/ StartCheckKeyword
    \/ Acquire
    \/ Dispatch
    \/ CheckLen
    \/ Report
    \/ \E p \in BagToSet(probes) : ProbeFirstError(p)
    \/ \E p \in BagToSet(probes) : ProbeFirstStatus(p)
    \/ \E p \in BagToSet(probes) : ProbeRedirect(p)
    \/ \E p \in BagToSet(probes) : ProbeFollowPanic(p)
    \/ \E p \in BagToSet(probes) : ProbeFollowError(p)
    \/ \E p \in BagToSet(probes) : ProbeFollowStatus(p)

Spec == Init /\ [][Next]_vars

----------------------------------------------------------------------------
(* CheckDomainPermutations and CheckKeywordPermutations on their own, entered *)
(* with candidates of the generators in permutatedQ                          *)

CheckDomainInputs ==
    { DomainCandidates(<<FmtPlain>>, MakeDomain("shop.co.uk"))[k] : k \in 1 .. 3 }

CheckKeywordInputs ==
    { KeywordCandidates(<<FmtPlain, FmtDev>>, <<"acme">>)[k] : k \in 1 .. 2 }

InitCheck ==
    /\ action \in {"DOMAIN", "KEYWORD"}
    /\ cfgConcurrency \in 1 .. MaxConcurrency
    /\ cfgDomains = <<>>
    /\ cfgKeywords = <<>>
    /\ perms = <<FmtPlain, FmtDev>>
    /\ pc = "acquire"
    /\ i = 1
    /\ domainQ = <<>>
    /\ permutatedQ \in SeqsUpTo(IF action = "DOMAIN" THEN CheckDomainInputs
                                ELSE CheckKeywordInputs, MaxQueue)
    /\ sem = MakeSem
    /\ probes = EmptyBag
    /\ stats = NewStats
    /\ exitCode = -1
    /\ requeues = 0
    /\ ev = NoEvent

\* the function returns: nothing of main follows
Return ==
    /\ Running /\ pc = "report"
    /\ pc' = "returned"
    /\ ev' = NoEvent
    /\ UNCHANGED <<action, cfgConcurrency, cfgDomains, cfgKeywords, perms, i, domainQ,
                   permutatedQ, sem, probes, stats, exitCode, requeues>>

NextCheck ==
    \/ Acquire
    \/ Dispatch
    \/ CheckLen
    \/ Return
    \/ \E p \in BagToSet(probes) : ProbeFirstError(p)
    \/ \E p \in BagToSet(probes) : ProbeFirstStatus(p)
    \/ \E p \in BagToSet(probes) : ProbeRedirect(p)
    \/ \E p \in BagToSet(probes) : ProbeFollowPanic(p)
    \/ \E p \in BagToSet(probes) : ProbeFollowError(p)
    \/ \E p \in BagToSet(probes) : ProbeFollowStatus(p)

SpecCheck == InitCheck /\ [][NextCheck]_vars

\* a step of some goroutine started by the go statement
ProbeStep ==
    \E p \in BagToSet(probes) :
        \/ ProbeFirstError(p)
        \/ ProbeFirstStatus(p)
        \/ ProbeRedirect(p)
        \/ ProbeFollowPanic(p)
        \/ ProbeFollowError(p)
        \/ ProbeFollowStatus(p)

\* the dispatch loops under the Go scheduler: the dispatcher runs when its
\* channel send or its Get can proceed, and a started goroutine runs on, its
\* requests ending in a response or an error
SpecCheckFair ==
    /\ SpecCheck
    /\ WF_vars(Acquire)
    /\ WF_vars(Dispatch)
    /\ WF_vars(CheckLen)
    /\ WF_vars(ProbeStep)

----------------------------------------------------------------------------
(* Properties *)

InFlight == BagCardinality(probes)

\* C1: at most cfgConcurrency probes have been spawned and have not yet
\* received from sem
C1_ConcurrencyBound == InFlight <= cfgConcurrency

C1_Witness == cfgConcurrency = 2 /\ InFlight = 2 /\ sem = 2

\* C2: when main is about to print the Stats, no probe is in flight
C2_ReportAfterProbes == pc = "report" => probes = EmptyBag

\* C3: when the dispatch loop has been left, no candidate that a probe put
\* back is still waiting in the queue
C3_RequeuedProbedAgain == pc \in {"report", "exited"} => permutatedQ = <<>>

\* C4: the generator of a domain run is never waiting on an empty domainQ
C4_GeneratorNeverBlocks == ~(pc = "expand" /\ domainQ = <<>>)

\* C5: a first response of 503 puts the candidate back once, adds one to the
\* 503 counter and one link to its list, changes nothing else of the Stats,
\* and releases the permit
C5_RateLimited ==
    [][(ev'.op = "first" /\ ev'.code = 503) =>
          /\ permutatedQ' = Append(permutatedQ, ev'.pd)
          /\ stats' = [stats EXCEPT !.Requests503 = @ + 1,
                                    !.Links503 = Append(@, ev'.pd.Permutation)]
          /\ sem' = sem - 1
          /\ BagCardinality(probes') = InFlight - 1]_vars

C5_Witness ==
    /\ ev.op = "first" /\ ev.code = 503
    /\ stats.Requests503 = 1
    /\ permutatedQ # <<>> /\ permutatedQ[Len(permutatedQ)] = ev.pd

\* the counter and the list that go with a terminal status
CounterOf(code) ==
    IF code = 200 THEN "Requests200" ELSE IF code = 403 THEN "Requests403" ELSE "Requests404"
ListOf(code) ==
    IF code = 200 THEN "Links200" ELSE IF code = 403 THEN "Links403" ELSE "Links404"

\* C6: a first response of 200, 403 or 404 adds one to its counter and the
\* candidate's hostname to its list, changes nothing else and does not put
\* the candidate back; with no probe in flight the counters of 200, 403 and
\* 404 equal the lengths of their lists
C6_TerminalStatus ==
    /\ [][(ev'.op = "first" /\ ev'.code \in {200, 403, 404}) =>
             /\ stats' = [stats EXCEPT ![CounterOf(ev'.code)] = @ + 1,
                                       ![ListOf(ev'.code)] = Append(@, ev'.pd.Permutation)]
             /\ permutatedQ' = permutatedQ]_vars
    /\ [](probes = EmptyBag =>
             /\ stats.Requests200 = Len(stats.Links200)
             /\ stats.Requests403 = Len(stats.Links403)
             /\ stats.Requests404 = Len(stats.Links404))

C6_Witness ==
    /\ ev.op = "first" /\ ev.code = 404
    /\ stats.Requests403 = 1 /\ stats.Requests404 = 1
    /\ stats.Links404 = <<ev.pd.Permutation>>
    /\ probes = EmptyBag

\* C7: a 307 whose follow-up request is answered with 200 adds one to the
\* 200 counter and the Location, which is not the candidate's hostname, to
\* the 200 list, changes nothing else and does not put the candidate back
C7_RedirectPublic ==
    [][(ev'.op = "follow" /\ ev'.code = 200) =>
          /\ stats' = [stats EXCEPT !.Requests200 = @ + 1,
                                    !.Links200 = Append(@, ev'.loc)]
          /\ ev'.loc # ev'.pd.Permutation
          /\ permutatedQ' = permutatedQ]_vars

C7_Witness ==
    /\ ev.op = "follow" /\ ev.code = 200
    /\ stats.Links200 = <<LocGood>>

\* the run has no valid target
ZeroTargets ==
    \/ action = "DOMAIN" /\ \A k \in 1 .. Len(cfgDomains) : InputFate(cfgDomains[k]) # "put"
    \/ action = "KEYWORD" /\ cfgKeywords = <<>>

\* C8: a run without a valid target never enters the dispatch loop and ends
\* with exit code 1
C8_ZeroTargetsExit ==
    ZeroTargets =>
        /\ pc \notin {"acquire", "get", "len", "report"}
        /\ pc = "exited" => exitCode = 1

\* C9: a domain run ends with exit code 1 only when no input is valid
C9_SkipNotFatal ==
    (action = "DOMAIN" /\ exitCode = 1) =>
        \A k \in 1 .. Len(cfgDomains) : InputFate(cfgDomains[k]) # "put"

\* the hostnames of C10 for a domain and for a keyword
ExpectedDomain(ps, root, suffix) ==
    [k \in 1 .. Len(ps) + 2 |->
        IF k <= Len(ps) THEN Sprintf(ps[k], <<root, S3Url>>)
        ELSE IF k = Len(ps) + 1 THEN root \o <<".">> \o suffix \o <<".">> \o S3Url
        ELSE SelectSeq(root \o suffix, LAMBDA t : t # ".") \o <<".">> \o S3Url]

ExpectedKeyword(ps, kw) == [k \in 1 .. Len(ps) |-> Sprintf(ps[k], <<kw, S3Url>>)]

RECURSIVE ExpectedOfDomains(_, _)
ExpectedOfDomains(ps, ds) ==
    IF ds = <<>> THEN <<>>
    ELSE ExpectedDomain(ps, Extract(Head(ds)).Root, Extract(Head(ds)).Tld)
         \o ExpectedOfDomains(ps, Tail(ds))

RECURSIVE ExpectedOfKeywords(_, _)
ExpectedOfKeywords(ps, kws) ==
    IF kws = <<>> THEN <<>>
    ELSE ExpectedKeyword(ps, Head(kws)) \o ExpectedOfKeywords(ps, Tail(kws))

ValidDomains == SelectSeq(cfgDomains, LAMBDA raw : InputFate(raw) = "put")
QueuedHostnames == [k \in 1 .. Len(permutatedQ) |-> permutatedQ[k].Permutation]

\* C10: the generator has queued, for every domain expanded so far, the
\* Len(perms) templated hostnames in template order, then root.suffix.s3url,
\* then root and suffix without dots followed by .s3url; and for every
\* keyword expanded so far the Len(perms) templated hostnames and nothing else
C10_Generated ==
    /\ (action = "DOMAIN" /\ pc = "expand") =>
          QueuedHostnames =
             ExpectedOfDomains(perms,
                SubSeq(ValidDomains, 1, Len(ValidDomains) - Len(domainQ)))
    /\ (action = "KEYWORD" /\ pc = "keywords") =>
          QueuedHostnames = ExpectedOfKeywords(perms, SubSeq(cfgKeywords, 1, i - 1))

C10_Witness ==
    /\ action = "DOMAIN" /\ pc = "expand" /\ domainQ = <<>>
    /\ cfgDomains = <<"shop.co.uk", "acme.com">>
    /\ Len(perms) = 2
    /\ Len(permutatedQ) = 8

\* C11: the answer to the request for Location is treated like a first
\* response: 200, 403 and 404 add one to their counter, 503 puts the
\* candidate back and adds one to the 503 counter, any other status, a
\* second 307 included, changes neither the Stats nor the queue
C11_FollowSameTable ==
    [][(ev'.op = "follow") =>
          /\ stats'.Requests200 = stats.Requests200 + (IF ev'.code = 200 THEN 1 ELSE 0)
          /\ stats'.Requests403 = stats.Requests403 + (IF ev'.code = 403 THEN 1 ELSE 0)
          /\ stats'.Requests404 = stats.Requests404 + (IF ev'.code = 404 THEN 1 ELSE 0)
          /\ stats'.Requests503 = stats.Requests503 + (IF ev'.code = 503 THEN 1 ELSE 0)
          /\ permutatedQ' = IF ev'.code = 503 THEN Append(permutatedQ, ev'.pd)
                            ELSE permutatedQ]_vars

\* C12: a request that cannot be built or sent, first or second, puts the
\* candidate back once, leaves the Stats alone and releases the permit
C12_FailureRequeues ==
    [][(ev'.op \in {"firstError", "followError", "panic"}) =>
          /\ permutatedQ' = Append(permutatedQ, ev'.pd)
          /\ stats' = stats
          /\ sem' = sem - 1
          /\ BagCardinality(probes') = InFlight - 1]_vars

\* C13: every probe that returns receives from sem exactly once, so sem
\* holds one value for each probe in flight and one more while the
\* dispatcher is between its send and the go statement; it is empty when
\* the loop has been left and no probe is in flight
C13_PermitsHeld ==
    /\ [](sem = InFlight + (IF pc = "get" THEN 1 ELSE 0))
    /\ []((pc \in {"report", "returned", "exited"} /\ probes = EmptyBag) => sem = 0)
    /\ [][BagCardinality(probes') < InFlight =>
             /\ BagCardinality(probes') = InFlight - 1
             /\ sem' = sem - 1]_vars

C13_Witness ==
    /\ pc = "returned" /\ probes = EmptyBag /\ sem = 0
    /\ requeues >= 1
    /\ stats.Requests200 = 1

\* the dispatch loop has been left
LoopLeft == pc \in {"report", "returned", "exited"}

\* C14: the loop is left only on an empty queue, and from then on no
\* candidate is taken from the queue and no probe is started: what a probe
\* puts back afterwards stays in the queue
C14_NoPopAfterExit ==
    [][/\ (pc = "len" /\ pc' = "report") => permutatedQ = <<>>
       /\ LoopLeft =>
             /\ LoopLeft'
             /\ Len(permutatedQ') >= Len(permutatedQ)
             /\ SubSeq(permutatedQ', 1, Len(permutatedQ)) = permutatedQ
             /\ BagCardinality(probes') <= InFlight]_vars

C14_Witness ==
    /\ LoopLeft /\ probes = EmptyBag
    /\ Len(permutatedQ) = 1
    /\ stats.Links503 = <<permutatedQ[1].Permutation>>

\* C15: a first response with a status that is none of 200, 307, 403, 404
\* and 503 changes neither the Stats nor the queue, and releases the permit
C15_UnknownStatus ==
    [][(ev'.op = "first" /\ ev'.code \notin {200, 307, 403, 404, 503}) =>
          /\ stats' = stats
          /\ permutatedQ' = permutatedQ
          /\ sem' = sem - 1
          /\ BagCardinality(probes') = InFlight - 1]_vars

C15_Witness ==
    /\ ev.op = "first" /\ ev.code = 500
    /\ stats = NewStats
    /\ probes = EmptyBag /\ permutatedQ = <<>> /\ sem = 0

\* C16: the queue changes only by the dispatcher taking its first element,
\* which becomes the candidate of the probe it starts, or by a probe adding
\* its candidate after the last element
C16_FifoOrder ==
    [][permutatedQ' # permutatedQ =>
          \/ /\ permutatedQ # <<>>
             /\ permutatedQ' = Tail(permutatedQ)
             /\ probes' = probes (+) SetToBag({[pd |-> Head(permutatedQ), at |-> "first",
                                                loc |-> <<>>]})
          \/ /\ ev'.op \in {"first", "firstError", "followError"}
             /\ permutatedQ' = Append(permutatedQ, ev'.pd)]_vars

C16_Witness ==
    /\ ev.op = "firstError" \/ (ev.op = "first" /\ ev.code = 503)
    /\ Len(permutatedQ) = 2
    /\ permutatedQ[2] = ev.pd
    /\ permutatedQ[1] # ev.pd

RECURSIVE BagOfSeq(_)
BagOfSeq(s) == IF s = <<>> THEN EmptyBag ELSE SetToBag({Head(s)}) (+) BagOfSeq(Tail(s))

ProbeCandidate(p) == p.pd
\* the candidates that are queued or held by a probe in flight
Held == BagOfSeq(permutatedQ) (+) BagOfAll(ProbeCandidate, probes)
\* the number of PUBLIC, FORBIDDEN and NOT_FOUND results recorded
Terminal == stats.Requests200 + stats.Requests403 + stats.Requests404

\* C17: no step of the dispatch loop or of a probe adds a candidate to those
\* queued or in flight, a step records at most one PUBLIC, FORBIDDEN or
\* NOT_FOUND result, and each result recorded takes one candidate out of
\* them for good: a probe that puts its candidate back records none, and
\* the results never outnumber the candidates the loop started with
C17_Conserved ==
    [][/\ Held' \sqsubseteq Held
       /\ Terminal' >= Terminal
       /\ Terminal' - Terminal <= BagCardinality(Held) - BagCardinality(Held')
       /\ Terminal' - Terminal <= 1
       /\ (Terminal' > Terminal) => permutatedQ' = permutatedQ]_vars

C17_Witness ==
    /\ Terminal = 2 /\ Held = EmptyBag
    /\ requeues = 1
    /\ stats.Requests503 = 1

\* C18: when the dispatch loop is entered with a candidate queued, the queue
\* is not empty whenever the dispatcher stands at permutatedQ.Get(1), so the
\* Get returns at once; where the dispatcher waits for a permit, a probe is
\* in flight to release one, and the wait ends (with the permit taken, or
\* with the process)
C18_PopNeverBlocks ==
    (permutatedQ # <<>>) =>
        /\ []((pc = "get" /\ Running) => permutatedQ # <<>>)
        /\ []((pc = "acquire" /\ Running /\ ~SemCanSend(sem, cfgConcurrency))
                 => InFlight > 0)
        /\ ((pc = "get" /\ Running) ~> (pc = "len" \/ ~Running))
        /\ ((pc = "acquire" /\ Running) ~> (pc = "get" \/ ~Running))

\* the dispatcher stands at the Get for the second time, a candidate that was
\* put back waiting for it, after it had to wait for the only permit
C18_Witness ==
    /\ pc = "get" /\ Running
    /\ cfgConcurrency = 1 /\ sem = 1 /\ probes = EmptyBag
    /\ requeues >= 1
    /\ permutatedQ # <<>>

\* C19: whatever a probe is answered, the prober of either mode does what the
\* other would have done: the first response and the response to the request
\* for Location change the statistics as the chain of
\* CheckDomainPermutations and as the chain of CheckKeywordPermutations
\* prescribe, and the candidate is put back when either would put it back
C19_SameProtocol ==
    [][/\ (ev'.op \in {"first", "redirect"}) =>
             /\ stats' = DomainFirstStats(stats, ev'.pd, ev'.code)
             /\ stats' = KeywordFirstStats(stats, ev'.pd, ev'.code)
             /\ DomainFirstRequeues(ev'.code) = KeywordFirstRequeues(ev'.code)
             /\ permutatedQ' = IF DomainFirstRequeues(ev'.code)
                               THEN Append(permutatedQ, ev'.pd) ELSE permutatedQ
       /\ (ev'.op = "follow") =>
             /\ stats' = DomainFollowStats(stats, ev'.pd, ev'.loc, ev'.code)
             /\ stats' = KeywordFollowStats(stats, ev'.pd, ev'.loc, ev'.code)
             /\ permutatedQ' = permutatedQ]_vars

====
